---- MODULE Spec2Model ----
(***************************************************************************)
(* openmumble: push-to-talk dictation.  The hotkey listener thread calls   *)
(* App._on_press / App._on_release; every completed recording is handed to *)
(* a new worker thread running App._process (transcribe -> cleanup ->      *)
(* insert).  Texts are sequences of one-character strings; audio is a      *)
(* sequence of mono samples (in tenths).                                   *)
(***************************************************************************)
EXTENDS Integers, Sequences, FiniteSets, TLC

VARIABLES
    cfg,        \* Config, immutable after startup
    recording,  \* App._recording
    listener,   \* the keyboard.Listener of App.run: "alive", or "dead" once an
                \* exception has left a callback
    evt,        \* the last hotkey event delivered and what its handler did
    frames,     \* Recorder._frames: list of captured chunks
    stream,     \* Recorder._stream: "none" / "created" / "active"
    model,      \* Transcriber._model is not None
    loads,      \* number of executions of Transcriber._load_model
    client,     \* Processor._client is not None
    warm,       \* position of the warm-up thread started by App.run
    runs,       \* the worker threads started by _on_release, in dispatch order
    rec         \* where the hotkey thread stands inside a handler, the holder of
                \* Recorder._lock, the capture callback in progress and the local
                \* audio of Recorder.stop

vars == <<cfg, recording, listener, evt, frames, stream, model, loads, client,
          warm, runs, rec>>

\* ---------------------------------------------------------------- bounds
MaxRuns == 2        \* worker threads dispatched in one behaviour
MaxChunks == 2      \* chunks the capture callback delivers in one recording
MaxSegs == 1        \* segments the speech-to-text engine returns for one call
MaxBlock == 2       \* frames in one chunk, where chunks of several frames are explored
MaxIds == 3         \* chunks delivered in one behaviour, where chunks are told apart

\* ----------------------------------------------------------------- texts
Empty == << >>
SP == " "

RECURSIVE LStrip(_)
\* str.lstrip(): drop leading whitespace
LStrip(s) == IF s # << >> /\ Head(s) = SP THEN LStrip(Tail(s)) ELSE s

RECURSIVE RStrip(_)
\* str.rstrip(): drop trailing whitespace
RStrip(s) == IF s # << >> /\ s[Len(s)] = SP THEN RStrip(SubSeq(s, 1, Len(s) - 1)) ELSE s

\* str.strip()
Strip(s) == RStrip(LStrip(s))

RECURSIVE RStripChars(_, _)
\* str.rstrip(chars): drop every trailing character that is in chars
RStripChars(s, chars) ==
    IF s # << >> /\ s[Len(s)] \in chars
    THEN RStripChars(SubSeq(s, 1, Len(s) - 1), chars)
    ELSE s

RECURSIVE Join(_)
\* " ".join(parts)
Join(parts) ==
    IF parts = << >> THEN << >>
    ELSE IF Len(parts) = 1 THEN parts[1]
    ELSE parts[1] \o <<SP>> \o Join(Tail(parts))

\* bool(text): a str is truthy iff it is non-empty
Truthy(s) == s # << >>

\* ------------------------------------------------------------------ keys
\* pynput keys: a keyboard.Key enum member (by name) or a KeyCode (by char)
Key(name) == [kind |-> "Key", name |-> name]
KeyCode(ch) == [kind |-> "KeyCode", name |-> <<ch>>]

ctrl == <<"c", "t", "r", "l">>
ctrl_l == <<"c", "t", "r", "l", "_", "l">>
ctrl_r == <<"c", "t", "r", "l", "_", "r">>
alt == <<"a", "l", "t">>
alt_l == <<"a", "l", "t", "_", "l">>
alt_r == <<"a", "l", "t", "_", "r">>
alt_gr == <<"a", "l", "t", "_", "g", "r">>
shift == <<"s", "h", "i", "f", "t">>
shift_l == <<"s", "h", "i", "f", "t", "_", "l">>
shift_r == <<"s", "h", "i", "f", "t", "_", "r">>
cmd == <<"c", "m", "d">>
cmd_l == <<"c", "m", "d", "_", "l">>
cmd_r == <<"c", "m", "d", "_", "r">>
option == <<"o", "p", "t", "i", "o", "n">>
f1 == <<"f", "1">>
f2 == <<"f", "2">>
f3 == <<"f", "3">>
f4 == <<"f", "4">>
f5 == <<"f", "5">>
f6 == <<"f", "6">>
f7 == <<"f", "7">>
f8 == <<"f", "8">>
f9 == <<"f", "9">>
f10 == <<"f", "1", "0">>
f11 == <<"f", "1", "1">>
f12 == <<"f", "1", "2">>

\* _SPECIAL_KEYS: config hotkey name -> name of the pynput Key
SpecialKeys ==
    (ctrl :> ctrl_l) @@ (alt :> alt_l) @@ (shift :> shift_l) @@ (cmd :> cmd_l) @@
    (option :> alt_l) @@ (f1 :> f1) @@ (f2 :> f2) @@ (f3 :> f3) @@ (f4 :> f4) @@
    (f5 :> f5) @@ (f6 :> f6) @@ (f7 :> f7) @@ (f8 :> f8) @@ (f9 :> f9) @@
    (f10 :> f10) @@ (f11 :> f11) @@ (f12 :> f12)

\* str.lower() on ASCII text: the 26 capital letters are lowered, every
\* other character is kept
UpperLetters ==
    <<"A", "B", "C", "D", "E", "F", "G", "H", "I", "J", "K", "L", "M",
      "N", "O", "P", "Q", "R", "S", "T", "U", "V", "W", "X", "Y", "Z">>
LowerLetters ==
    <<"a", "b", "c", "d", "e", "f", "g", "h", "i", "j", "k", "l", "m",
      "n", "o", "p", "q", "r", "s", "t", "u", "v", "w", "x", "y", "z">>
ToLower ==
    [c \in { UpperLetters[i] : i \in 1..Len(UpperLetters) } |->
        LowerLetters[CHOOSE i \in 1..Len(UpperLetters) : UpperLetters[i] = c]]
LowerChar(c) == IF c \in DOMAIN ToLower THEN ToLower[c] ELSE c
Lower(s) == [i \in 1..Len(s) |-> LowerChar(s[i])]

\* App._resolve_hotkey: a named key, else a single character, else ValueError
ResolveHotkey(name) ==
    IF Lower(name) \in DOMAIN SpecialKeys THEN Key(SpecialKeys[Lower(name)])
    ELSE IF Len(name) = 1 THEN KeyCode(name[1])
    ELSE [kind |-> "ValueError", name |-> name]

\* hotkey settings: the named modifiers, spellings with capitals, and
\* characters
HotkeyNames ==
    { ctrl, alt, option, shift, cmd,
      <<"C", "t", "r", "l">>, <<"S", "h", "i", "f", "t">>,
      <<"O", "P", "T", "I", "O", "N">>, <<"C", "M", "D">>,
      <<"a">>, <<"l">>, <<"_">> }

\* App._hotkey, set once in App.__init__ by _resolve_hotkey(cfg.hotkey)
ResolvedHotkeys == [h \in HotkeyNames |-> ResolveHotkey(h)]
Hotkey == ResolvedHotkeys[cfg.hotkey]

StripLR == {"_", "l", "r"}

\* mutant: only the resolved key itself matches
KeyMatchesExact(key) == key = Hotkey

\* App._key_matches
KeyMatches(key) ==
    IF Hotkey.kind = "Key"
    THEN IF key.kind = "Key"
         THEN RStripChars(key.name, StripLR) = RStripChars(Hotkey.name, StripLR)
              \/ key = Hotkey
         ELSE FALSE
    ELSE key = Hotkey

\* ---------------------------------------------------------------- config
NoApiKey == << >>
SomeApiKey == <<"k">>

\* The startup configurations explored: Config after Config.load and the CLI
\* overrides of main.
Configs ==
    { [hotkey |-> ctrl, enable_cleanup |-> FALSE, anthropic_api_key |-> SomeApiKey,
       channels |-> 1, platform |-> "Linux"],
      [hotkey |-> ctrl, enable_cleanup |-> TRUE, anthropic_api_key |-> NoApiKey,
       channels |-> 2, platform |-> "Darwin"],
      [hotkey |-> <<"a">>, enable_cleanup |-> TRUE, anthropic_api_key |-> SomeApiKey,
       channels |-> 1, platform |-> "Windows"] }

\* mutant: the processor is created whatever enable_cleanup says
HasProcessorAlways == TRUE

\* App.processor is a Processor exactly when cleanup is enabled
HasProcessor == cfg.enable_cleanup

\* physical keys the listener delivers
EventKeys == {Key(ctrl_l), Key(ctrl_r), KeyCode("a")}

\* ---------------------------------------------------------------- process
\* App.run blocks in listener.join().  An exception that leaves a callback
\* stops the listener and is raised again by join(); run catches only
\* KeyboardInterrupt, so it ends the process and with it the daemon threads.
Running == listener = "alive"

\* --------------------------------------------------------------- recorder
\* no handler is inside the recorder, Recorder._lock is free and no callback
\* is running; got and next record the chunks the callback was handed since
\* the last Recorder.start and the number of the next chunk
RecIdle ==
    [pc |-> "idle", lock |-> "free", cb |-> "idle", chunk |-> << >>,
     got |-> << >>, next |-> 1, audio |-> << >>]

\* a chunk is the indata array of one callback: a sequence of frames, each a
\* tuple of cfg.channels samples
ChunksOf(channels) ==
    IF channels = 1 THEN { << <<2>> >> } ELSE { << <<2, 4>> >> }

EmptyAudio == << >>

RECURSIVE Concatenate(_)
\* np.concatenate(frames, axis=0)
Concatenate(chunks) ==
    IF chunks = << >> THEN << >> ELSE Head(chunks) \o Concatenate(Tail(chunks))

RECURSIVE Sum(_)
Sum(s) == IF s = << >> THEN 0 ELSE Head(s) + Sum(Tail(s))

\* mutant: the first channel is taken instead of the mean of the channels
MeanAxis1FirstChannel(audio) == [i \in 1..Len(audio) |-> audio[i][1]]

\* audio.mean(axis=1): the mean over the channels of every frame
MeanAxis1(audio) == [i \in 1..Len(audio) |-> Sum(audio[i]) \div Len(audio[i])]

\* Recorder.start, the stream left behind: InputStream(...) may raise before
\* the assignment, stream.start() after it
StartOutcomes == {"ok", "open_error", "start_error"}
StartStream(outcome, old) ==
    CASE outcome = "ok" -> "active"
      [] outcome = "open_error" -> old
      [] outcome = "start_error" -> "created"

\* Recorder.stop, the stream left behind: stream.stop() may raise before
\* anything is changed, stream.close() when the stream has been stopped; only
\* after both is _stream set to None
StopOutcomes == {"ok", "stop_error", "close_error"}
StopStream(outcome, old) ==
    CASE outcome = "ok" -> "none"
      [] outcome = "stop_error" -> old
      [] outcome = "close_error" -> "created"

\* Recorder._callback: the stream thread appends a copy of indata
Callback(chunk) ==
    /\ Running
    /\ stream = "active"
    /\ Len(frames) < MaxChunks
    /\ Len(runs) < MaxRuns
    /\ frames' = Append(frames, chunk)
    /\ UNCHANGED <<cfg, rec, recording, listener, evt, stream, model, loads, client,
                   warm, runs>>

\* ------------------------------------------------------------ hotkey thread
\* mutant: the press guard ignores which key was pressed
PressAcceptsAnyKey(key) == ~recording

\* mutant: a release of the hotkey stops the recorder whatever the state
ReleaseAcceptsWhileIdle(key) == KeyMatches(key)

\* the guards of App._on_press and App._on_release
PressAccepts(key) == KeyMatches(key) /\ ~recording
ReleaseAccepts(key) == KeyMatches(key) /\ recording

\* mutant: a worker is dispatched for an empty buffer too
DispatchesAlways(audio) == TRUE

\* _on_release dispatches a worker unless audio.size == 0
Dispatches(audio) == Len(audio) # 0

\* mutant: _process(audio) is called on the hotkey thread, which returns only
\* when the pipeline has ended
NewRunInline(audio) ==
    [pc |-> "done", audio |-> EmptyAudio, raw |-> Empty, final |-> Empty,
     cleanupCalls |-> 0, insertCalls |-> 1, text |-> Empty, err |-> "none"]

\* threading.Thread(target=self._process, args=(audio,)).start()
NewRun(audio) ==
    [pc |-> "start", audio |-> audio, raw |-> Empty, final |-> Empty,
     cleanupCalls |-> 0, insertCalls |-> 0, text |-> Empty, err |-> "none"]

\* App._on_press.  An exception raised by Recorder.start is not caught: it
\* leaves the callback and ends the listener thread.
OnPress(key, outcome) ==
    /\ Running /\ rec.pc = "idle"
    /\ IF PressAccepts(key)
       THEN /\ recording' = TRUE
            /\ frames' = << >>
            /\ stream' = StartStream(outcome, stream)
            /\ listener' = IF outcome = "ok" THEN "alive" ELSE "dead"
            /\ evt' = [call |-> "start", status |-> IF outcome = "ok" THEN "recording" ELSE "raised"]
       ELSE /\ outcome = "ok"
            /\ evt' = [call |-> "none", status |-> "none"]
            /\ UNCHANGED <<recording, frames, stream, listener>>
    /\ UNCHANGED <<cfg, rec, model, loads, client, warm, runs>>

\* App._on_release up to the point where it waits: _recording = False, then
\* Recorder.stop takes the lock and calls stream.stop(), which returns only
\* when the audio thread has left the callback; until then the callback may
\* still deliver chunks
OnRelease(key) ==
    /\ Running /\ rec.pc = "idle"
    /\ IF ReleaseAccepts(key)
       THEN /\ recording' = FALSE
            /\ rec' = [rec EXCEPT !.pc = "stop_close", !.lock = "held"]
            /\ evt' = evt
       ELSE /\ evt' = [call |-> "none", status |-> "none"]
            /\ UNCHANGED <<recording, rec>>
    /\ UNCHANGED <<cfg, listener, frames, stream, model, loads, client, warm, runs>>

\* what no statement of the recorder or of the hotkey handlers touches
RecUnchanged == UNCHANGED <<cfg, model, loads, client, warm>>

\* Recorder.stop: self._stream.stop(); close(); self._stream = None.
\* stream.stop() returns when the audio thread has left the callback, and
\* the callback is not called again afterwards.  stop() or close() may
\* raise: the exception releases the lock and leaves _on_release and the
\* listener, with _stream not reset and the frames kept.  (With no stream,
\* Recorder.stop calls neither.)
StopClose(outcome) ==
    /\ Running /\ rec.pc = "stop_close"
    /\ stream = "none" => outcome = "ok"
    /\ outcome # "stop_error" => rec.cb = "idle"
    /\ stream' = StopStream(outcome, stream)
    /\ IF outcome = "ok"
       THEN /\ rec' = [rec EXCEPT !.pc = "stop_drain"]
            /\ UNCHANGED <<listener, evt>>
       ELSE /\ rec' = [rec EXCEPT !.pc = "idle", !.lock = "free"]
            /\ listener' = "dead"
            /\ evt' = [call |-> "stop", status |-> "raised"]
    /\ UNCHANGED <<recording, frames, runs>>
    /\ RecUnchanged

\* Recorder.stop: the rest of the with block: return np.array([]) for an
\* empty list, else audio = np.concatenate(self._frames, axis=0) and clear
StopDrain ==
    /\ Running /\ rec.pc = "stop_drain"
    /\ rec' = [rec EXCEPT !.pc = "stop_unlock", !.audio = Concatenate(frames)]
    /\ frames' = << >>
    /\ UNCHANGED <<recording, listener, evt, stream, runs>>
    /\ RecUnchanged

\* Recorder.stop leaves the with block: the lock is released
StopUnlock ==
    /\ Running /\ rec.pc = "stop_unlock"
    /\ rec' = [rec EXCEPT !.pc = "stop_return", !.lock = "free"]
    /\ UNCHANGED <<recording, listener, evt, frames, stream, runs>>
    /\ RecUnchanged

\* Recorder.stop returns the mean over the channels (nothing to average in
\* the empty array) and _on_release dispatches a worker unless audio.size == 0
ReleaseDispatch ==
    /\ Running /\ rec.pc = "stop_return"
    /\ LET audio == MeanAxis1(rec.audio) IN
       IF Dispatches(audio)
       THEN /\ runs' = Append(runs, NewRun(audio))
            /\ evt' = [call |-> "stop", status |-> "captured"]
       ELSE /\ runs' = runs
            /\ evt' = [call |-> "stop", status |-> "no_audio"]
    /\ rec' = [rec EXCEPT !.pc = "idle", !.audio = << >>]
    /\ UNCHANGED <<recording, listener, frames, stream>>
    /\ RecUnchanged

\* ----------------------------------------------------------- transcriber
\* texts of the segments the speech-to-text engine may yield
SegTexts == { <<SP>>, <<SP, "a">> }
SegLists == UNION { [1..n -> SegTexts] : n \in 0..MaxSegs }

\* Transcriber.transcribe before the engine call: "" for empty audio, else
\* load the model when it is None
TranscribeEntry(audio) ==
    IF Len(audio) = 0 THEN "empty"
    ELSE IF ~model THEN "load"
    ELSE "stt"

\* mutant: the joined text is returned without the final strip()
TranscribeTextUnstripped(segs) == Join([i \in 1..Len(segs) |-> segs[i]])

\* Transcriber.transcribe, the text built from the engine's segments
TranscribeText(segs) == Strip(Join([i \in 1..Len(segs) |-> Strip(segs[i])]))

\* -------------------------------------------------------------- processor
\* texts the cleanup service may answer with (response.content[0].text)
Responses == { <<"b", SP>>, <<SP>> }

\* Processor.cleanup up to the request: the early returns and _ensure_client
CleanupEntry(raw) ==
    IF ~Truthy(Strip(raw)) THEN "return_raw"
    ELSE IF ~Truthy(cfg.anthropic_api_key) THEN "return_raw"
    ELSE IF ~client THEN "mkclient"
    ELSE "request"

\* mutant: a failed request yields the empty string instead of the raw text
CleanupResultEmptyOnError(raw, raised, answer) == IF raised THEN Empty ELSE Strip(answer)

\* Processor.cleanup, the value returned once the request has answered
\* (raised = FALSE) or raised
CleanupResult(raw, raised, answer) == IF raised THEN raw ELSE Strip(answer)

\* --------------------------------------------------------------- inserter
\* insert_text: the platform branch
InsertEntry(system) == IF system \in {"Darwin", "Linux"} THEN "copy" ELSE "pyperclip"

\* ---------------------------------------------------------------- pipeline
RunIds == 1..Len(runs)

\* The worker returns or dies with an uncaught exception: its locals are gone,
\* what stays is how it ended and which collaborators it had called.
Ended(run, how, stage) ==
    [run EXCEPT !.pc = how, !.err = stage, !.audio = EmptyAudio, !.raw = Empty,
                !.final = Empty, !.text = Empty]

\* insert_text(final_text) is called: the worker enters the insertion stage
CallInsert(run, final) ==
    [run EXCEPT !.final = final, !.text = final, !.insertCalls = @ + 1,
                !.pc = InsertEntry(cfg.platform)]

\* _process after transcribe has returned raw (audio is not used again): stop
\* on falsy text, else clean up when there is a processor, else insert raw
AfterTranscribe(run, raw) ==
    LET got == [run EXCEPT !.raw = raw, !.audio = EmptyAudio] IN
    IF ~Truthy(raw) THEN Ended(got, "nospeech", "none")
    ELSE IF HasProcessor
    THEN LET entry == CleanupEntry(raw) IN
         IF entry = "return_raw" THEN CallInsert(got, raw)
         ELSE IF entry = "request"
         THEN [got EXCEPT !.cleanupCalls = @ + 1, !.pc = "request"]
         ELSE [got EXCEPT !.pc = entry]
    ELSE CallInsert(got, raw)

SharedUnchanged == UNCHANGED <<cfg, rec, recording, listener, evt, frames, stream, warm>>

\* mutant: a worker does not start on its audio while a new recording is in
\* progress
TranscribeEnterWhenIdle(r) ==
    /\ Running
    /\ ~recording
    /\ runs[r].pc = "start"
    /\ LET entry == TranscribeEntry(runs[r].audio) IN
       runs' = [runs EXCEPT ![r] =
                  IF entry = "empty" THEN AfterTranscribe(@, Empty)
                  ELSE [@ EXCEPT !.pc = entry]]
    /\ SharedUnchanged
    /\ UNCHANGED <<model, loads, client>>

\* the worker starts: _process calls transcribe(audio)
TranscribeEnter(r) ==
    /\ Running
    /\ runs[r].pc = "start"
    /\ LET entry == TranscribeEntry(runs[r].audio) IN
       runs' = [runs EXCEPT ![r] =
                  IF entry = "empty" THEN AfterTranscribe(@, Empty)
                  ELSE [@ EXCEPT !.pc = entry]]
    /\ SharedUnchanged
    /\ UNCHANGED <<model, loads, client>>

\* Transcriber._load_model returns or raises
LoadModel(r, ok) ==
    /\ Running
    /\ runs[r].pc = "load"
    /\ IF ok
       THEN /\ model' = TRUE
            /\ loads' = loads + 1
            /\ runs' = [runs EXCEPT ![r].pc = "stt"]
       ELSE /\ runs' = [runs EXCEPT ![r] = Ended(@, "failed", "load")]
            /\ UNCHANGED <<model, loads>>
    /\ SharedUnchanged
    /\ UNCHANGED client

\* the engine answers with segments: transcribe returns and _process goes on
\* to the next stage
TranscribeReturn(r, segs) ==
    /\ Running
    /\ runs[r].pc = "stt"
    /\ runs' = [runs EXCEPT ![r] = AfterTranscribe(@, TranscribeText(segs))]
    /\ SharedUnchanged
    /\ UNCHANGED <<model, loads, client>>

\* mutant: the engine's exception reaches the hotkey thread (as it would if
\* _process ran on it) and ends the listener
TranscribeRaiseFatal(r) ==
    /\ Running
    /\ runs[r].pc = "stt"
    /\ runs' = [runs EXCEPT ![r] = Ended(@, "failed", "transcribe")]
    /\ listener' = "dead"
    /\ UNCHANGED <<cfg, rec, recording, evt, frames, stream, warm, model, loads, client>>

\* the engine raises: nothing in _process catches it, the worker ends
TranscribeRaise(r) ==
    /\ Running
    /\ runs[r].pc = "stt"
    /\ runs' = [runs EXCEPT ![r] = Ended(@, "failed", "transcribe")]
    /\ SharedUnchanged
    /\ UNCHANGED <<model, loads, client>>

\* Processor._ensure_client: anthropic.Anthropic(...) returns or raises
EnsureClient(r, ok) ==
    /\ Running
    /\ runs[r].pc = "mkclient"
    /\ IF ok
       THEN /\ client' = TRUE
            /\ runs' = [runs EXCEPT ![r].pc = "request", ![r].cleanupCalls = @ + 1]
       ELSE /\ runs' = [runs EXCEPT ![r] = Ended(@, "failed", "client")]
            /\ UNCHANGED client
    /\ SharedUnchanged
    /\ UNCHANGED <<model, loads>>

\* messages.create answers or raises; cleanup returns and insert_text is called
CleanupReturn(r, raised, answer) ==
    /\ Running
    /\ runs[r].pc = "request"
    /\ runs' = [runs EXCEPT ![r] =
                  CallInsert(@, CleanupResult(runs[r].raw, raised, answer))]
    /\ SharedUnchanged
    /\ UNCHANGED <<model, loads, client>>

\* mutant: insert_text runs under a lock shared by all runs, so the copy waits
\* while another run is inside its insertion
CopyUnderLock(r, ok) ==
    /\ Running
    /\ runs[r].pc = "copy"
    /\ \A q \in RunIds : q # r => runs[q].pc # "paste"
    /\ runs' = [runs EXCEPT ![r] =
                  IF ok THEN [@ EXCEPT !.pc = "paste"] ELSE Ended(@, "failed", "copy")]
    /\ SharedUnchanged
    /\ UNCHANGED <<model, loads, client>>

\* pbcopy / xclip ends: subprocess.run(check=True) returns or raises
Copy(r, ok) ==
    /\ Running
    /\ runs[r].pc = "copy"
    /\ runs' = [runs EXCEPT ![r] =
                  IF ok THEN [@ EXCEPT !.pc = "paste"] ELSE Ended(@, "failed", "copy")]
    /\ SharedUnchanged
    /\ UNCHANGED <<model, loads, client>>

\* mutant: a failed paste subprocess takes the listener down with the worker
PasteFailFatal(r, ok) ==
    /\ Running
    /\ runs[r].pc = "paste"
    /\ runs' = [runs EXCEPT ![r] =
                  IF ok THEN Ended(@, "done", "none") ELSE Ended(@, "failed", "paste")]
    /\ listener' = IF ok THEN listener ELSE "dead"
    /\ UNCHANGED <<cfg, rec, recording, evt, frames, stream, warm, model, loads, client>>

\* osascript / xdotool ends: the paste keystroke was sent, or the subprocess
\* failed
Paste(r, ok) ==
    /\ Running
    /\ runs[r].pc = "paste"
    /\ runs' = [runs EXCEPT ![r] =
                  IF ok THEN Ended(@, "done", "none") ELSE Ended(@, "failed", "paste")]
    /\ SharedUnchanged
    /\ UNCHANGED <<model, loads, client>>

\* other platforms: pyperclip.copy only, no paste keystroke
Pyperclip(r, ok) ==
    /\ Running
    /\ runs[r].pc = "pyperclip"
    /\ runs' = [runs EXCEPT ![r] =
                  IF ok THEN Ended(@, "done", "none") ELSE Ended(@, "failed", "copy")]
    /\ SharedUnchanged
    /\ UNCHANGED <<model, loads, client>>

\* the warm-up thread of App.run: transcribe(np.array([]))
WarmUp ==
    /\ Running
    /\ warm = "start"
    /\ LET entry == TranscribeEntry(EmptyAudio) IN
       warm' = IF entry = "empty" THEN "done" ELSE entry
    /\ UNCHANGED <<cfg, rec, recording, listener, evt, frames, stream, model, loads,
                   client, runs>>

\* ------------------------------------------------------------ specification
NoEvent == [call |-> "none", status |-> "none"]

Init ==
    /\ cfg \in Configs
    /\ recording = FALSE
    /\ listener = "alive"
    /\ evt = NoEvent
    /\ frames = << >>
    /\ stream = "none"
    /\ model = FALSE
    /\ loads = 0
    /\ client = FALSE
    /\ warm = "start"
    /\ runs = << >>
    /\ rec = RecIdle

Next ==
    \/ \E k \in EventKeys, o \in StartOutcomes : OnPress(k, o)
    \/ \E k \in EventKeys : OnRelease(k)
    \/ \E o \in StopOutcomes : StopClose(o)
    \/ StopDrain
    \/ StopUnlock
    \/ ReleaseDispatch
    \/ \E c \in ChunksOf(cfg.channels) : Callback(c)
    \/ WarmUp
    \/ \E r \in RunIds : TranscribeEnter(r)
    \/ \E r \in RunIds, ok \in BOOLEAN : LoadModel(r, ok)
    \/ \E r \in RunIds, segs \in SegLists : TranscribeReturn(r, segs)
    \/ \E r \in RunIds : TranscribeRaise(r)
    \/ \E r \in RunIds, ok \in BOOLEAN : EnsureClient(r, ok)
    \/ \E r \in RunIds, raised \in BOOLEAN, a \in Responses : CleanupReturn(r, raised, a)
    \/ \E r \in RunIds, ok \in BOOLEAN : Copy(r, ok)
    \/ \E r \in RunIds, ok \in BOOLEAN : Paste(r, ok)
    \/ \E r \in RunIds, ok \in BOOLEAN : Pyperclip(r, ok)

Spec == Init /\ [][Next]_vars

\* one step of the worker thread that runs App._process for run r
RunStep(r) ==
    \/ TranscribeEnter(r)
    \/ \E ok \in BOOLEAN : LoadModel(r, ok)
    \/ \E segs \in SegLists : TranscribeReturn(r, segs)
    \/ TranscribeRaise(r)
    \/ \E ok \in BOOLEAN : EnsureClient(r, ok)
    \/ \E raised \in BOOLEAN, a \in Responses : CleanupReturn(r, raised, a)
    \/ \E ok \in BOOLEAN : Copy(r, ok)
    \/ \E ok \in BOOLEAN : Paste(r, ok)
    \/ \E ok \in BOOLEAN : Pyperclip(r, ok)

\* Every worker is a thread of its own that the operating system schedules
\* fairly, and each call it makes to a collaborator returns or raises: a
\* worker that can take a step eventually takes one.
SpecFair == Spec /\ \A r \in 1..MaxRuns : WF_vars(r \in RunIds /\ RunStep(r))

\* the delivered keys that _key_matches accepts for the configured hotkey
TriggerKeys == { k \in EventKeys : KeyMatches(k) }

\* the program when the only key the user touches is the hotkey: the listener
\* delivers presses and releases of keys that _key_matches accepts
NextTrigger ==
    \/ \E k \in TriggerKeys, o \in StartOutcomes : OnPress(k, o)
    \/ \E k \in TriggerKeys : OnRelease(k)
    \/ \E o \in StopOutcomes : StopClose(o)
    \/ StopDrain
    \/ StopUnlock
    \/ ReleaseDispatch
    \/ \E c \in ChunksOf(cfg.channels) : Callback(c)
    \/ WarmUp
    \/ \E r \in RunIds : RunStep(r)

SpecTrigger == Init /\ [][NextTrigger]_vars

\* ------------------------------------------------ Recorder.stop on its own
\* sample frames the device may deliver (samples in tenths; the two samples
\* of a stereo frame have an even sum, so that their mean is a whole number
\* of tenths)
FramesOf(channels) ==
    IF channels = 1 THEN { <<2>>, <<10>> }
    ELSE { <<2, 4>>, <<0, 10>>, <<4, 4>> }

\* the chunks of up to MaxBlock frames, and the frame lists of up to MaxChunks
\* chunks that the callback may have built up during a recording
BlocksOf(channels) == UNION { [1..n -> FramesOf(channels)] : n \in 1..MaxBlock }
FrameLists(channels) == UNION { [1..n -> BlocksOf(channels)] : n \in 0..MaxChunks }

\* a recording is in progress and the callback has delivered some chunks
InitStop ==
    /\ cfg \in Configs
    /\ recording = TRUE
    /\ listener = "alive"
    /\ evt = [call |-> "start", status |-> "recording"]
    /\ frames \in FrameLists(cfg.channels)
    /\ stream = "active"
    /\ model = FALSE
    /\ loads = 0
    /\ client = FALSE
    /\ warm = "start"
    /\ runs = << >>
    /\ rec = RecIdle

\* the key is released: _on_release calls Recorder.stop, while the audio
\* thread goes on delivering chunks until stream.stop() has returned
NextStop ==
    \/ \E k \in EventKeys : OnRelease(k)
    \/ \E o \in StopOutcomes : StopClose(o)
    \/ StopDrain
    \/ StopUnlock
    \/ ReleaseDispatch
    \/ \E c \in BlocksOf(cfg.channels) : Callback(c)

SpecStop == InitStop /\ [][NextStop]_vars

\* ------------------------------ the recorder, statement by statement
\* Recorder.start and Recorder.stop run on the hotkey thread and hold
\* Recorder._lock; Recorder._callback runs on the audio thread of the stream.
\* Chunks are numbered in the order the audio thread hands them over.  The
\* steps of Recorder.stop after its wait in stream.stop() are those of the
\* hotkey thread above: StopClose, StopDrain, StopUnlock, ReleaseDispatch.
ChunkOfId(id, channels) == << [c \in 1..channels |-> id] >>

\* _on_press up to the call of Recorder.start
PressEnter(key) ==
    /\ Running /\ rec.pc = "idle"
    /\ IF PressAccepts(key)
       THEN /\ recording' = TRUE
            /\ rec' = [rec EXCEPT !.pc = "start_lock"]
            /\ evt' = evt
       ELSE /\ evt' = [call |-> "none", status |-> "none"]
            /\ UNCHANGED <<recording, rec>>
    /\ UNCHANGED <<listener, frames, stream, runs>>
    /\ RecUnchanged

\* Recorder.start: with self._lock: self._frames.clear()
StartClear ==
    /\ Running /\ rec.pc = "start_lock" /\ rec.lock = "free"
    /\ frames' = << >>
    /\ rec' = [rec EXCEPT !.pc = "start_open", !.lock = "held", !.got = << >>]
    /\ UNCHANGED <<recording, listener, evt, stream, runs>>
    /\ RecUnchanged

\* Recorder.start: self._stream = sd.InputStream(...), which may raise; the
\* exception releases the lock and leaves _on_press and the listener
StartOpen(ok) ==
    /\ Running /\ rec.pc = "start_open"
    /\ IF ok
       THEN /\ stream' = "created"
            /\ rec' = [rec EXCEPT !.pc = "start_run"]
            /\ UNCHANGED <<listener, evt>>
       ELSE /\ stream' = StartStream("open_error", stream)
            /\ rec' = [rec EXCEPT !.pc = "idle", !.lock = "free"]
            /\ listener' = "dead"
            /\ evt' = [call |-> "start", status |-> "raised"]
    /\ UNCHANGED <<recording, frames, runs>>
    /\ RecUnchanged

\* Recorder.start: self._stream.start(), which may raise
StartRun(ok) ==
    /\ Running /\ rec.pc = "start_run"
    /\ IF ok
       THEN /\ stream' = "active"
            /\ rec' = [rec EXCEPT !.pc = "start_exit"]
            /\ UNCHANGED <<listener, evt>>
       ELSE /\ stream' = StartStream("start_error", stream)
            /\ rec' = [rec EXCEPT !.pc = "idle", !.lock = "free"]
            /\ listener' = "dead"
            /\ evt' = [call |-> "start", status |-> "raised"]
    /\ UNCHANGED <<recording, frames, runs>>
    /\ RecUnchanged

\* Recorder.start leaves the with block; _on_press prints and returns
StartExit ==
    /\ Running /\ rec.pc = "start_exit"
    /\ rec' = [rec EXCEPT !.pc = "idle", !.lock = "free"]
    /\ evt' = [call |-> "start", status |-> "recording"]
    /\ UNCHANGED <<recording, listener, frames, stream, runs>>
    /\ RecUnchanged

\* _on_release up to the call of Recorder.stop
ReleaseEnter(key) ==
    /\ Running /\ rec.pc = "idle"
    /\ IF ReleaseAccepts(key)
       THEN /\ recording' = FALSE
            /\ rec' = [rec EXCEPT !.pc = "stop_lock"]
            /\ evt' = evt
       ELSE /\ evt' = [call |-> "none", status |-> "none"]
            /\ UNCHANGED <<recording, rec>>
    /\ UNCHANGED <<listener, frames, stream, runs>>
    /\ RecUnchanged

\* Recorder.stop: with self._lock
StopLock ==
    /\ Running /\ rec.pc = "stop_lock" /\ rec.lock = "free"
    /\ rec' = [rec EXCEPT !.pc = "stop_close", !.lock = "held"]
    /\ UNCHANGED <<recording, listener, evt, frames, stream, runs>>
    /\ RecUnchanged

\* mutant: the callback puts the new chunk in front of the list
CallbackAppendFront ==
    /\ Running /\ rec.cb = "running"
    /\ frames' = <<rec.chunk>> \o frames
    /\ rec' = [rec EXCEPT !.cb = "idle", !.chunk = << >>]
    /\ UNCHANGED <<recording, listener, evt, stream, runs>>
    /\ RecUnchanged

\* Recorder._callback: self._frames.append(indata.copy()); no lock is taken
CallbackAppend ==
    /\ Running /\ rec.cb = "running"
    /\ frames' = Append(frames, rec.chunk)
    /\ rec' = [rec EXCEPT !.cb = "idle", !.chunk = << >>]
    /\ UNCHANGED <<recording, listener, evt, stream, runs>>
    /\ RecUnchanged

\* the audio thread of the active stream calls Recorder._callback(indata, ...)
CallbackEnter ==
    /\ Running /\ stream = "active" /\ rec.cb = "idle" /\ rec.next <= MaxIds
    /\ rec' = [rec EXCEPT !.cb = "running",
                          !.chunk = ChunkOfId(rec.next, cfg.channels),
                          !.got = Append(@, rec.next),
                          !.next = @ + 1]
    /\ UNCHANGED <<recording, listener, evt, frames, stream, runs>>
    /\ RecUnchanged

NextRecorder ==
    \/ \E k \in EventKeys : PressEnter(k)
    \/ StartClear
    \/ \E ok \in BOOLEAN : StartOpen(ok)
    \/ \E ok \in BOOLEAN : StartRun(ok)
    \/ StartExit
    \/ \E k \in EventKeys : ReleaseEnter(k)
    \/ StopLock
    \/ \E o \in StopOutcomes : StopClose(o)
    \/ StopDrain
    \/ StopUnlock
    \/ ReleaseDispatch
    \/ CallbackEnter
    \/ CallbackAppend

SpecRecorder == Init /\ [][NextRecorder]_vars

\* ------------------------------------------------- _key_matches on its own
\* names of keyboard.Key members the listener can deliver
KeyNames ==
    { ctrl, ctrl_l, ctrl_r, alt, alt_l, alt_r, alt_gr, shift, shift_l, shift_r,
      cmd, cmd_l, cmd_r, f1, f2, f3, f4, f5, f6, f7, f8, f9, f10, f11, f12,
      <<"e", "n", "t", "e", "r">>, <<"e", "s", "c">>, <<"t", "a", "b">>,
      <<"s", "p", "a", "c", "e">>, <<"d", "e", "l", "e", "t", "e">>,
      <<"c", "a", "p", "s", "_", "l", "o", "c", "k">>,
      <<"l", "e", "f", "t">>, <<"u", "p">> }

\* characters of the KeyCodes the listener can deliver
KeyChars == {"a", "A", "l", "r", "_", "c", "1"}

AllKeys == { Key(n) : n \in KeyNames } \cup { KeyCode(c) : c \in KeyChars }

KeyConfigs ==
    { [hotkey |-> h, enable_cleanup |-> FALSE, anthropic_api_key |-> NoApiKey,
       channels |-> 1, platform |-> "Linux"] : h \in HotkeyNames }

\* the listener hands key to _on_press, which evaluates _key_matches(key)
KeyPress(key) ==
    /\ evt' = [call |-> "press", status |-> "none", key |-> key,
               matches |-> KeyMatches(key)]
    /\ UNCHANGED <<cfg, rec, recording, listener, frames, stream, model, loads, client,
                   warm, runs>>

\* the listener hands key to _on_release, which evaluates _key_matches(key)
KeyRelease(key) ==
    /\ evt' = [call |-> "release", status |-> "none", key |-> key,
               matches |-> KeyMatches(key)]
    /\ UNCHANGED <<cfg, rec, recording, listener, frames, stream, model, loads, client,
                   warm, runs>>

InitKeys ==
    /\ cfg \in KeyConfigs
    /\ recording = FALSE
    /\ listener = "alive"
    /\ evt = NoEvent
    /\ frames = << >>
    /\ stream = "none"
    /\ model = FALSE
    /\ loads = 0
    /\ client = FALSE
    /\ warm = "start"
    /\ runs = << >>
    /\ rec = RecIdle

NextKeys ==
    \/ \E k \in AllKeys : KeyPress(k)
    \/ \E k \in AllKeys : KeyRelease(k)

SpecKeys == InitKeys /\ [][NextKeys]_vars

\* ------------------------------------------------------------------ claims
\* what the specification calls a matching key: the configured character, or
\* any physical variant of the configured modifier
IsTriggerKey(k) ==
    IF cfg.hotkey = ctrl THEN k \in {Key(ctrl), Key(ctrl_l), Key(ctrl_r)}
    ELSE k = KeyCode(cfg.hotkey[1])

InsertionPcs == {"copy", "paste", "pyperclip"}
EndedPcs == {"nospeech", "done", "failed"}

\* the step is the handler of a press / release of key k
PressOf(k) == \E o \in StartOutcomes : OnPress(k, o)
ReleaseOf(k) == OnRelease(k)

\* the step is one of the release handler after it has called stream.stop()
ReleaseStopped ==
    \/ \E o \in StopOutcomes : StopClose(o)
    \/ StopDrain
    \/ StopUnlock
    \/ ReleaseDispatch

\* positions of the hotkey thread inside the release handler
ReleasePcs == {"stop_close", "stop_drain", "stop_unlock", "stop_return"}

\* C1: the orchestrator becomes Recording only by a press of a matching key
\* while Idle, becomes Idle only by a release of a matching key while
\* Recording, and a press or release of a non-matching key changes neither
\* the state nor the recorder (start/stop are not called).
C1_Alternation ==
    [][ /\ (~recording /\ recording') =>
              \E k \in EventKeys : IsTriggerKey(k) /\ PressOf(k) /\ evt'.call = "start"
        /\ (recording /\ ~recording') =>
              \E k \in EventKeys : IsTriggerKey(k) /\ ReleaseOf(k) /\ rec'.pc = "stop_close"
        /\ \A k \in EventKeys :
              (~IsTriggerKey(k) /\ (PressOf(k) \/ ReleaseOf(k))) =>
                  /\ evt'.call = "none"
                  /\ UNCHANGED <<recording, frames, stream, runs>>
        /\ (evt'.call = "start" /\ evt' # evt) => (~recording /\ recording')
        /\ (evt'.call = "stop" /\ evt' # evt) => (~recording /\ rec.pc \in ReleasePcs)
        /\ (rec'.pc \in ReleasePcs /\ rec.pc = "idle") => (recording /\ ~recording')
        /\ rec.pc \in ReleasePcs => ~recording
      ]_vars

\* a second recording is in progress after a first one was dispatched, and a
\* non-matching or repeated key event has just been ignored
C1_Witness == recording /\ Len(runs) >= 1 /\ evt.call = "none" /\ stream = "active"

\* C2: a release that dispatches a run leaves the orchestrator Idle with the
\* new worker not yet started on any stage and every earlier run untouched;
\* and whenever the orchestrator is Idle a matching press is accepted,
\* whatever stage the earlier runs are in.
C2_NonBlocking ==
    /\ [][ Len(runs') > Len(runs) =>
              /\ ~recording'
              /\ Len(runs') = Len(runs) + 1
              /\ runs'[Len(runs')].pc = "start"
              /\ runs'[Len(runs')].insertCalls = 0
              /\ \A r \in RunIds : runs'[r] = runs[r] ]_vars
    /\ [](Running /\ ~recording /\ rec.pc = "idle" =>
              \A k \in EventKeys : IsTriggerKey(k) =>
                  PressAccepts(k) /\ ENABLED OnPress(k, "ok"))

\* a new recording is under way while an earlier run is in its insertion
\* stage and another one in transcription
C2_Witness ==
    /\ recording
    /\ Len(runs) = 2
    /\ runs[1].pc = "paste"
    /\ runs[2].pc = "stt"

\* number of sample frames in a frame list
FrameCount(frs) == Len(Concatenate(frs))

\* C3: a run is dispatched exactly when a recording completes with audio: the
\* release that ends a recording with no captured frame reports "no audio
\* captured" and dispatches nothing, and with captured frames it dispatches
\* exactly one run carrying that recording's buffer; no other step dispatches.
C3_DispatchIffAudio ==
    [][ /\ StopDrain =>
              /\ Len(rec'.audio) = FrameCount(frames)
              /\ frames' = << >>
        /\ ReleaseDispatch =>
              /\ evt'.call = "stop"
              /\ IF rec.audio = << >>
                 THEN runs' = runs /\ evt'.status = "no_audio"
                 ELSE /\ evt'.status = "captured"
                      /\ Len(runs') = Len(runs) + 1
                      /\ runs'[Len(runs')].audio = MeanAxis1(rec.audio)
                      /\ Len(runs'[Len(runs')].audio) = Len(rec.audio)
                      /\ \A r \in RunIds : runs'[r] = runs[r]
        /\ Len(runs') # Len(runs) => (ReleaseDispatch /\ rec.audio # << >>)
        /\ rec.audio # rec'.audio => (StopDrain \/ ReleaseDispatch)
      ]_vars

\* one recording was dispatched and a later, empty one was not
C3_Witness == evt.status = "no_audio" /\ Len(runs) = 1 /\ ~recording

\* C4: a run whose transcription is empty or blank ends with "no speech
\* detected" without calling cleanup or insertion: only a run with non-blank
\* raw text is ever in the cleanup or insertion stage.
C4_NoSpeech ==
    \A r \in RunIds :
        /\ runs[r].pc = "nospeech" =>
              runs[r].cleanupCalls = 0 /\ runs[r].insertCalls = 0
        /\ runs[r].pc \in {"mkclient", "request"} \cup InsertionPcs =>
              Truthy(Strip(runs[r].raw))
        /\ (runs[r].cleanupCalls > 0 \/ runs[r].insertCalls > 0) =>
              runs[r].pc # "nospeech"

\* a run has ended with "no speech detected" while another was inserted
C4_Witness ==
    \E r, q \in RunIds : runs[r].pc = "nospeech" /\ runs[q].pc = "done"

\* C5: with cleanup enabled, an absent API key means no cleanup request at all
\* and insertion of the raw text; a cleanup request that raises makes
\* insert_text receive exactly the raw text.
C5_CleanupFailsOpen ==
    /\ [](cfg.enable_cleanup /\ ~Truthy(cfg.anthropic_api_key) =>
            \A r \in RunIds :
                /\ runs[r].cleanupCalls = 0
                /\ runs[r].pc \notin {"mkclient", "request"}
                /\ runs[r].pc \in InsertionPcs =>
                      /\ runs[r].text = runs[r].raw
                      /\ runs[r].final = runs[r].raw
                      /\ runs[r].insertCalls = 1)
    /\ [][ \A r \in RunIds : \A a \in Responses :
              (cfg.enable_cleanup /\ CleanupReturn(r, TRUE, a)) =>
                  /\ runs'[r].final = runs[r].raw
                  /\ runs'[r].text = runs[r].raw
                  /\ Truthy(runs'[r].text)
                  /\ runs'[r].insertCalls = 1
                  /\ runs'[r].pc \in InsertionPcs ]_vars

\* a run whose cleanup request was made entered insertion with the raw text
\* (no answer of the service equals the raw text, so the request raised)
C5_Witness ==
    \E r \in RunIds :
        /\ runs[r].pc \in InsertionPcs
        /\ runs[r].cleanupCalls = 1
        /\ runs[r].text = runs[r].raw
        /\ \A a \in Responses : Strip(a) # runs[r].raw

\* C6: with cleanup disabled the cleanup collaborator is never called and
\* insert_text is called exactly once, with exactly the transcribed text.
C6_RawInserted ==
    ~cfg.enable_cleanup =>
        \A r \in RunIds :
            /\ runs[r].cleanupCalls = 0
            /\ runs[r].pc \notin {"mkclient", "request"}
            /\ runs[r].insertCalls <= 1
            /\ runs[r].pc \in InsertionPcs =>
                  /\ runs[r].insertCalls = 1
                  /\ runs[r].text = runs[r].raw
                  /\ Truthy(runs[r].raw)
            /\ runs[r].pc = "done" => runs[r].insertCalls = 1

\* cleanup is disabled and the transcribed text "a" is being pasted
C6_Witness ==
    /\ ~cfg.enable_cleanup
    /\ \E r \in RunIds : runs[r].pc = "paste" /\ runs[r].text = <<"a">>

\* C7 as claimed: at most one run is inside the insertion stage at a time.
C7_AtMostOneInserting ==
    Cardinality({r \in RunIds : runs[r].pc \in InsertionPcs}) <= 1

\* C7 as amended: insertion is not serialized across runs.  Every run calls
\* insert_text at most once, with its own final text, and a run inside the
\* insertion stage never has to wait for another run: its copy and its paste
\* can complete whatever stage the other runs are in.
C7_InsertionUnserialized ==
    \A r \in RunIds :
        /\ runs[r].insertCalls <= 1
        /\ runs[r].pc \in InsertionPcs =>
              runs[r].insertCalls = 1 /\ runs[r].text = runs[r].final
        /\ (Running /\ runs[r].pc = "copy") => ENABLED Copy(r, TRUE)
        /\ (Running /\ runs[r].pc = "paste") => ENABLED Paste(r, TRUE)
        /\ (Running /\ runs[r].pc = "pyperclip") => ENABLED Pyperclip(r, TRUE)

\* two runs are inside the insertion stage at once, one copying while the
\* other sends its paste keystroke
C7_Witness ==
    /\ Len(runs) = 2
    /\ runs[1].pc = "copy"
    /\ runs[2].pc = "paste"

\* C8: a failure of the transcription collaborator ends that run without any
\* cleanup or insertion call, now or later, and changes nothing else: neither
\* the orchestrator and recorder state nor any other run.
C8_TranscriptionFailureAborts ==
    /\ [](\A r \in RunIds :
            (runs[r].pc = "failed" /\ runs[r].err \in {"load", "transcribe"}) =>
                runs[r].cleanupCalls = 0 /\ runs[r].insertCalls = 0)
    /\ [][ \A r \in RunIds :
              /\ (runs[r].pc \in {"load", "stt"} /\ runs'[r].pc = "failed") =>
                    /\ runs'[r].err \in {"load", "transcribe"}
                    /\ UNCHANGED <<recording, listener, evt, frames, stream>>
                    /\ \A q \in RunIds : q # r => runs'[q] = runs[q]
              /\ runs[r].pc \in EndedPcs => runs'[r] = runs[r] ]_vars

\* the first run was aborted by a transcription failure and the next
\* recording's run completed its insertion
C8_Witness ==
    /\ Len(runs) = 2
    /\ runs[1].pc = "failed" /\ runs[1].err = "transcribe"
    /\ runs[2].pc = "done" /\ runs[2].insertCalls = 1
    /\ Running

\* C9: a failure of the insertion collaborator ends only that run: the
\* listener and the orchestrator and recorder state are unchanged, no other
\* run is touched, and the other runs inside insertion can still complete it.
C9_InsertionFailureConfined ==
    /\ [][ \A r \in RunIds :
              (runs[r].pc \in InsertionPcs /\ runs'[r].pc = "failed") =>
                  /\ runs'[r].err \in {"copy", "paste"}
                  /\ listener' = listener /\ Running'
                  /\ UNCHANGED <<recording, evt, frames, stream>>
                  /\ \A q \in RunIds : q # r => runs'[q] = runs[q] ]_vars
    /\ []((Running /\ \E r \in RunIds :
                runs[r].pc = "failed" /\ runs[r].err \in {"copy", "paste"}) =>
            \A q \in RunIds :
                /\ runs[q].pc = "start" => ENABLED TranscribeEnter(q)
                /\ runs[q].pc = "copy" => ENABLED Copy(q, TRUE)
                /\ runs[q].pc = "paste" => ENABLED Paste(q, TRUE)
                /\ runs[q].pc = "pyperclip" => ENABLED Pyperclip(q, TRUE))

\* the first run's paste failed, the listener is alive, and the next run
\* completed its own insertion
C9_Witness ==
    /\ Len(runs) = 2
    /\ runs[1].pc = "failed" /\ runs[1].err = "paste"
    /\ runs[2].pc = "done" /\ runs[2].insertCalls = 1
    /\ Running

\* C10 as claimed: after a press on which Recorder.start raised, the hotkey
\* listener is still alive (so that the key's release and the next press are
\* handled).
C10_ListenerSurvivesCaptureError ==
    evt.status = "raised" => Running


\* C11: a release of the hotkey while Idle and a press of the hotkey while
\* Recording (auto-repeat) call neither Recorder.start nor Recorder.stop and
\* leave the frame list, the stream, App._recording and the runs as they were.
C11_IgnoredHotkeyEvents ==
    [][ \A k \in EventKeys :
          (IsTriggerKey(k) /\ ((~recording /\ ReleaseOf(k)) \/ (recording /\ PressOf(k))))
              => /\ evt'.call = "none"
                 /\ UNCHANGED <<recording, frames, stream, listener, runs, rec>>
      ]_vars

\* only the hotkey is ever touched: a repeated press has just been ignored
\* during a recording that has captured frames, which are still there
C11_Witness ==
    /\ recording /\ stream = "active" /\ frames # << >>
    /\ evt.call = "none"


\* the physical variants of a named modifier: generic, left and right
ModifierVariants(h) ==
    CASE h \in {ctrl, <<"C", "t", "r", "l">>} -> {Key(ctrl), Key(ctrl_l), Key(ctrl_r)}
      [] h \in {alt, option, <<"O", "P", "T", "I", "O", "N">>} ->
            {Key(alt), Key(alt_l), Key(alt_r)}
      [] h \in {shift, <<"S", "h", "i", "f", "t">>} ->
            {Key(shift), Key(shift_l), Key(shift_r)}
      [] h \in {cmd, <<"C", "M", "D">>} -> {Key(cmd), Key(cmd_l), Key(cmd_r)}
      [] OTHER -> {}

\* C12: with a named modifier as hotkey, _key_matches is true exactly for the
\* generic, left and right variant of that modifier, for press and release
\* alike, and false for every other named key and every character key; with
\* a single character as hotkey it is true exactly for that character's key,
\* so for no named key.
C12_HotkeyVariants ==
    evt.call \in {"press", "release"} =>
        evt.matches =
            IF Len(cfg.hotkey) = 1
            THEN evt.key = KeyCode(cfg.hotkey[1])
            ELSE evt.key \in ModifierVariants(cfg.hotkey)

\* the hotkey is "option" and the right alt key has been released: a match
C12_Witness ==
    /\ cfg.hotkey = option /\ evt.call = "release"
    /\ evt.key = Key(alt_r) /\ evt.matches


\* C13: once the warm-up task started by App.run has finished, the
\* speech-to-text model is loaded (Transcriber._model is not None), so no
\* later transcription performs the load.
C13_WarmUpLoadsModel == warm = "done" => model


\* C14: while the process lives, every dispatched run eventually ends in one
\* of its terminal outcomes (no speech detected, insertion completed, failure
\* of a stage) and an ended run stays as it ended; the record of a run
\* changes only by a step of that run's own worker, never by a press, a
\* release, the capture callback, the warm-up or another run.
C14_NoCancellation ==
    /\ \A r \in 1..MaxRuns :
          (r \in RunIds) ~> (~Running \/ (r \in RunIds /\ runs[r].pc \in EndedPcs))
    /\ [][ \A r \in RunIds :
              /\ runs'[r] # runs[r] => (RunStep(r) /\ runs[r].pc \notin EndedPcs)
              /\ ((\E k \in EventKeys : PressOf(k) \/ ReleaseOf(k)) \/ ReleaseStopped)
                    => runs'[r] = runs[r]
         ]_vars

\* a first run has been dispatched and is still at its first stage while a
\* second recording is in progress; the process lives
C14_Witness ==
    /\ Running /\ recording /\ Len(runs) >= 1
    /\ runs[1].pc \in {"load", "stt"}


\* C15: the audio Recorder.stop returns has one value per captured frame, the
\* mean of that frame's channel values; with one channel it is the captured
\* samples themselves, as a flat sequence.
C15_MonoMean ==
    [][ (ReleaseDispatch /\ evt'.status = "captured") =>
              LET captured == rec.audio
                  audio == runs'[Len(runs')].audio
              IN  /\ Len(audio) = Len(captured)
                  /\ \A i \in 1..Len(audio) :
                        /\ Len(captured[i]) = cfg.channels
                        /\ audio[i] * cfg.channels = Sum(captured[i])
                        /\ cfg.channels = 1 => audio[i] = captured[i][1]
      ]_vars

\* the stereo frames (0.2, 0.4), (0.0, 1.0) were captured and stop returned
\* 0.3, 0.5
C15_Witness ==
    /\ cfg.channels = 2 /\ evt.status = "captured"
    /\ Len(runs) = 1 /\ runs[1].audio = <<3, 5>>


\* C16: the capture callback never appends to Recorder._frames while
\* Recorder.start or Recorder.stop holds Recorder._lock.
C16_CallbackExcluded == [][CallbackAppend => rec.lock = "free"]_vars


\* C17: in every interleaving of the warm-up and the pipeline runs the
\* speech-to-text model is loaded at most once and the cleanup client is
\* constructed at most once: no load completes when a model is already
\* there, and no client is constructed when one is already there.
C17_InitialisedOnce ==
    [][ /\ loads' <= 1
        /\ \A r \in RunIds :
              /\ LoadModel(r, TRUE) => ~model
              /\ EnsureClient(r, TRUE) => ~client
      ]_vars


\* C18: when the construction of the cleanup client fails on its first use
\* (non-blank raw text, cleanup enabled, API key present), the run goes on to
\* insertion and insert_text receives the raw text.
C18_ClientFailureFailsOpen ==
    [][ \A r \in RunIds :
          EnsureClient(r, FALSE) =>
              /\ runs'[r].pc \in InsertionPcs
              /\ runs'[r].insertCalls = 1
              /\ runs'[r].text = runs[r].raw
      ]_vars


\* C19: the buffer a Recorder.stop returns is made of exactly the chunks the
\* callback was handed since the matching Recorder.start, in arrival order
\* (with none of them a worker is not dispatched); chunks returned by
\* different stops are different chunks, those of the earlier stop older.
C19_BufferIsTheRecording ==
    /\ [][ ReleaseDispatch =>
              IF rec.got = << >>
              THEN runs' = runs /\ evt'.status = "no_audio"
              ELSE /\ Len(runs') = Len(runs) + 1
                   /\ runs'[Len(runs')].audio = rec.got ]_vars
    /\ [](\A r, q \in RunIds : r < q =>
             \A i \in 1..Len(runs[r].audio), j \in 1..Len(runs[q].audio) :
                 runs[r].audio[i] < runs[q].audio[j])

\* two recordings of a stereo device have been returned: the first with
\* chunk 1, the second with chunks 2 and 3 in that order
C19_Witness ==
    /\ cfg.channels = 2 /\ Len(runs) = 2
    /\ runs[1].audio = <<1>> /\ runs[2].audio = <<2, 3>>
    /\ rec.pc = "idle"


\* C20: whenever no hotkey handler is executing, App._recording is true
\* exactly when the Recorder holds a stream (Recorder._stream is not None),
\* also after a Recorder.start that failed.
C20_InStep == rec.pc = "idle" => (recording <=> stream # "none")

====
